---- MODULE Spec2Model ----
(***************************************************************************)
(* A model of the container orchestrator: the manager (dispatch loop,      *)
(* health loop, update loop), the workers (runner, updater), the task      *)
(* state machine and the round-robin scheduler.                            *)
(*                                                                         *)
(* Identifiers are UUIDs in the code.  Here a task id is <<"task", k>>,   *)
(* the id of the event a client builds for task k is <<"event", k>>, and   *)
(* the id uuid.New() gives a stop event is <<"stop", n>>: ids drawn by     *)
(* uuid.New() never collide.  A worker is its index in Manager.Workers.    *)
(* A time stamp is 0 (the zero time) or 1 (set by time.Now()).  A          *)
(* container id is 0 (the empty string) or the number of the container.   *)
(***************************************************************************)
EXTENDS Integers, Sequences, FiniteSets, TLC

\* ------------------------------------------------------------------ bounds
NumWorkers == 2
MaxTasks == 2
MaxRequests == 2
MaxFaults == 1
MaxContainers == 2
MaxWalk == 4
RetryRequests == 1
RetryFaults == 2
BurstRequests == 12
NodeDisk == 1
MaxNodes == 3
MaxScore == 3
MaxSelections == 6
MaxDisk == 2
MaxPasses == 3

\* ------------------------------------------------------- program constants
ChanCap == 10
MaxRestarts == 3

Workers == 1..NumWorkers
TaskIds == {<<"task", k>> : k \in 1..MaxTasks}
ZeroUUID == <<"nil", 0>>

\* ------------------------------------------------------ task state machine
States == {"Pending", "Scheduled", "Running", "Completed", "Failed"}

\* The table of an earlier revision: no way out of Failed, no restart edge.
stateTransitionMapNoRestart ==
    [ Pending   |-> <<"Scheduled">>,
      Scheduled |-> <<"Running", "Failed">>,
      Running   |-> <<"Completed", "Failed">>,
      Completed |-> <<>>,
      Failed    |-> <<>> ]

stateTransitionMap ==
    [ Pending   |-> <<"Scheduled">>,
      Scheduled |-> <<"Running", "Failed">>,
      Running   |-> <<"Completed", "Failed", "Scheduled">>,
      Completed |-> <<>>,
      Failed    |-> <<"Scheduled">> ]

ValidStateTransition(current, target) ==
    IF current = target
    THEN TRUE
    ELSE \E i \in 1..Len(stateTransitionMap[current]) :
            stateTransitionMap[current][i] = target

\* ------------------------------------------------------------ data types
NoTask == [Id |-> ZeroUUID, State |-> "None"]

\* The zero value of task.Task (State 0 is Pending).
ZeroTask ==
    [ Id |-> ZeroUUID, State |-> "Pending", ContainerId |-> 0,
      RestartCount |-> 0, StartTime |-> 0, FinishTime |-> 0, Disk |-> 0 ]

\* The task of the event the client builds: fresh id, State Scheduled, and
\* a disk request that grows with k.
ClientTask(k) ==
    [ Id |-> <<"task", k>>, State |-> "Scheduled", ContainerId |-> 0,
      RestartCount |-> 0, StartTime |-> 0, FinishTime |-> 0, Disk |-> k ]

ClientEvent(k) ==
    [ Id |-> <<"event", k>>, State |-> "Scheduled", Task |-> ClientTask(k) ]

\* ------------------------------------------------------------ memory store
\* A store is a function from the keys to the value put there, or NoTask.
EmptyStore == [id \in TaskIds |-> NoTask]

StoreHas(db, key) == key \in DOMAIN db /\ db[key] # NoTask

StorePut(db, key, value) == [db EXCEPT ![key] = value]

StoreKeys(db) == {key \in DOMAIN db : db[key] # NoTask}

RECURSIVE SetToSeq(_)
SetToSeq(S) ==
    IF S = {} THEN <<>>
    ELSE LET x == CHOOSE y \in S : TRUE IN <<x>> \o SetToSeq(S \ {x})

\* List allocates len(Db) zero values and then appends every stored value.
StoreList(db) ==
    LET keys == SetToSeq(StoreKeys(db))
    IN  [i \in 1..Len(keys) |-> ZeroTask] \o [i \in 1..Len(keys) |-> db[keys[i]]]

Range(s) == {s[i] : i \in 1..Len(s)}


\* ------------------------------------------------------------------ state
VARIABLES
    addTaskSenders,   \* manager: the goroutines of AddTask that have not sent yet
    Pending,          \* manager: the Pending channel
    TaskDb,           \* manager: Manager.TaskDb
    EventDb,          \* manager: Manager.EventDb, event id -> event
    WorkerTaskMap,    \* manager: worker -> sequence of task ids
    TaskWorkerMap,    \* manager: task id -> worker
    LastWorker,       \* manager: RoundRobin.LastWorker
    TaskCount,        \* manager: Node.TaskCount of every worker node
    healthTasks,      \* manager: what checkTasksHealth still has to visit
    Queue,            \* worker: Worker.Queue
    Db,               \* worker: Worker.Db
    runnerTask,       \* worker: the task runNextTask is about to start
    updaterTasks,     \* worker: what updateTasks still has to visit
    containers,       \* worker: the containers of the local engine
    nextContainer,    \* the number the engine gives the next container
    startedContainers, \* per task, the containers Docker.Run has started so far
    submits,          \* POST /tasks calls made by the client
    stops,            \* DELETE /tasks/{id} calls made by the client
    transportErrors,  \* transport errors so far
    runFailures,      \* failed container starts so far
    exits,            \* containers that exited on their own so far
    restartsIssued,   \* per task, the calls of restartTask so far
    walk,             \* the states a task was asked to take (state machine walk)
    budget,           \* environment: the requests, faults and containers of a run
    Scheduler,        \* manager: the kind of Manager.Scheduler
    nodeDisk,         \* manager: per node, Disk - DiskAllocated as last reported
    call              \* the last call of a unit under test, with its result

vars ==
    << addTaskSenders, Pending, TaskDb, EventDb, WorkerTaskMap, TaskWorkerMap,
       LastWorker, TaskCount, healthTasks, Queue, Db, runnerTask, updaterTasks,
       containers, nextContainer, startedContainers, submits, stops, transportErrors, runFailures,
       exits, restartsIssued, walk, budget, Scheduler, nodeDisk, call >>

managerVars ==
    << addTaskSenders, Pending, TaskDb, EventDb, WorkerTaskMap, TaskWorkerMap,
       LastWorker, TaskCount, healthTasks, restartsIssued >>

workerVars ==
    << Queue, Db, runnerTask, updaterTasks, containers, nextContainer, startedContainers >>

clientVars == << submits, stops >>

faultVars == << transportErrors, runFailures, exits >>

envVars == << budget, Scheduler, nodeDisk, call >>

\* No unit was called yet.
NoCall == [fn |-> "none"]

\* The faults the environment has injected so far.
Faults == transportErrors + runFailures + exits

\* Manager.New and Worker.New: empty stores, one empty list per worker, the
\* scheduler of the given kind, no node stats yet; the environment may make
\* the given numbers of requests and faults, and the engines have room for
\* the given number of containers.
InitBudget(requests, faults, room, scheduler) ==
    /\ addTaskSenders = <<>>
    /\ Pending = <<>>
    /\ TaskDb = EmptyStore
    /\ EventDb = <<>>
    /\ WorkerTaskMap = [w \in Workers |-> <<>>]
    /\ TaskWorkerMap = <<>>
    /\ LastWorker = 0
    /\ TaskCount = [w \in Workers |-> 0]
    /\ healthTasks = <<>>
    /\ Queue = [w \in Workers |-> <<>>]
    /\ Db = [w \in Workers |-> EmptyStore]
    /\ runnerTask = [w \in Workers |-> NoTask]
    /\ updaterTasks = [w \in Workers |-> <<>>]
    /\ containers = [w \in Workers |-> <<>>]
    /\ nextContainer = 1
    /\ startedContainers = [id \in TaskIds |-> 0]
    /\ submits = 0
    /\ stops = 0
    /\ transportErrors = 0
    /\ runFailures = 0
    /\ exits = 0
    /\ restartsIssued = [id \in TaskIds |-> 0]
    /\ walk = <<>>
    /\ budget = [requests |-> requests, faults |-> faults, containers |-> room]
    /\ Scheduler = scheduler
    /\ nodeDisk = [w \in Workers |-> 0]
    /\ call = NoCall

InitWith(requests, faults, scheduler) ==
    InitBudget(requests, faults, MaxContainers, scheduler)

Init == InitWith(MaxRequests, MaxFaults, "roundrobin")

\* A map with a growing key set: m[key] = value, the other keys kept.
MapPut(m, key, value) ==
    [k \in DOMAIN m \cup {key} |-> IF k = key THEN value ELSE m[k]]

\* ---------------------------------------------------------------- client
\* Manager.AddTask with the caller blocked until the channel takes the event.
ManagerAddTaskInline(te) ==
    /\ Len(Pending) < ChanCap
    /\ Pending' = Append(Pending, te)
    /\ UNCHANGED addTaskSenders

\* Manager.AddTask: a goroutine is started that holds the event until the
\* channel takes it; the call itself returns at once.
ManagerAddTask(te) ==
    /\ addTaskSenders' = Append(addTaskSenders, te)
    /\ UNCHANGED Pending

\* POST /tasks on the manager: the event is handed to AddTask, 201.
ManagerStartTaskHandler(k) ==
    /\ submits + stops < budget.requests
    /\ submits' = submits + 1
    /\ ManagerAddTask(ClientEvent(k))
    /\ UNCHANGED << TaskDb, EventDb, WorkerTaskMap, TaskWorkerMap,
                    LastWorker, TaskCount, healthTasks, restartsIssued,
                    workerVars, stops, faultVars, walk, envVars >>

\* DELETE /tasks/{taskId} on the manager: 404 for a task the store does not
\* hold; otherwise a Completed event with a fresh id holding the stored task.
ManagerStopTaskHandler(id) ==
    /\ submits + stops < budget.requests
    /\ IF StoreHas(TaskDb, id)
       THEN /\ stops' = stops + 1
            /\ ManagerAddTask([ Id |-> <<"stop", stops + 1>>,
                                State |-> "Completed",
                                Task |-> [TaskDb[id] EXCEPT !.State = "Completed"] ])
       ELSE UNCHANGED << stops, addTaskSenders, Pending >>
    /\ UNCHANGED << TaskDb, EventDb, WorkerTaskMap, TaskWorkerMap,
                    LastWorker, TaskCount, healthTasks, restartsIssued,
                    workerVars, submits, faultVars, walk, envVars >>

\* The goroutine of AddTask sends its event on the channel when there is room.
AddTaskSend(i) ==
    /\ i \in 1..Len(addTaskSenders)
    /\ Len(Pending) < ChanCap
    /\ Pending' = Append(Pending, addTaskSenders[i])
    /\ addTaskSenders' = SubSeq(addTaskSenders, 1, i - 1)
                            \o SubSeq(addTaskSenders, i + 1, Len(addTaskSenders))
    /\ UNCHANGED << TaskDb, EventDb, WorkerTaskMap, TaskWorkerMap, LastWorker,
                    TaskCount, healthTasks, restartsIssued, workerVars,
                    clientVars, faultVars, walk, envVars >>


\* ------------------------------------------------------------- scheduler
\* A Score that wraps one index too late.
RoundRobinNextLate(last, n) == IF last = n THEN 0 ELSE last + 1

\* RoundRobin.Score: the index after LastWorker, wrapping at the end.
RoundRobinNext(last, n) == IF last = n - 1 THEN 0 ELSE last + 1

\* The scores 0.1 and 1 of the code, times ten.
RoundRobinScore(last, n) ==
    [i \in 0..(n - 1) |-> IF i = RoundRobinNext(last, n) THEN 1 ELSE 10]

\* A Pick that moves on to a later node with the same score.
RECURSIVE PickLoopLast(_, _, _, _)
PickLoopLast(scores, i, n, selected) ==
    IF i >= n THEN selected
    ELSE PickLoopLast(scores, i + 1, n,
                      IF scores[i] <= scores[selected] THEN i ELSE selected)

\* RoundRobin.Pick: the first node with the lowest score (strict <).
RECURSIVE PickLoop(_, _, _, _)
PickLoop(scores, i, n, selected) ==
    IF i >= n THEN selected
    ELSE PickLoop(scores, i + 1, n,
                  IF scores[i] < scores[selected] THEN i ELSE selected)

RoundRobinPick(scores, n) == PickLoop(scores, 0, n, 0)

\* Manager.WorkerNodes: one node per worker, in the order of the workers.
WorkerNodes == [i \in 1..NumWorkers |-> i]

\* RoundRobin.SelectCandidateNodes: every node is a candidate.
RoundRobinSelectCandidateNodes(t, nodes) == nodes

checkDisk(t, diskAvailable) == t.Disk <= diskAvailable

\* A candidate filter that lets every node pass.
EpvmSelectCandidateNodesAll(t, nodes) == nodes

\* Epvm.SelectCandidateNodes: the nodes with room on disk for the task, in
\* the order of the input.
EpvmSelectCandidateNodes(t, nodes) ==
    SelectSeq(nodes, LAMBDA w : checkDisk(t, nodeDisk[w]))

SelectCandidateNodes(t, nodes) ==
    IF Scheduler = "roundrobin"
    THEN RoundRobinSelectCandidateNodes(t, nodes)
    ELSE EpvmSelectCandidateNodes(t, nodes)

\* Epvm.Score for a task that asks for less than 1000 of memory: the terms
\* of memory and cpu load cancel, the cost of a node is
\* 2 * (LIEB^((TaskCount+1)/4) - LIEB^(TaskCount/4)), positive and growing
\* with TaskCount; the score here is its rank, TaskCount + 1. A node whose
\* stats refresh fails gets no score.
EpvmScore(nodes, failed) ==
    [w \in Range(nodes) \ failed |-> TaskCount[w] + 1]

\* A Go map read: the zero value for a key the map does not hold.
ScoreOf(scores, w) == IF w \in DOMAIN scores THEN scores[w] ELSE 0

\* Epvm.Pick: the first candidate with the lowest score (strict <).
RECURSIVE EpvmPickLoop(_, _, _, _)
EpvmPickLoop(scores, candidates, i, bestNode) ==
    IF i > Len(candidates) THEN bestNode
    ELSE EpvmPickLoop(scores, candidates, i + 1,
                      IF ScoreOf(scores, candidates[i]) < ScoreOf(scores, bestNode)
                      THEN candidates[i] ELSE bestNode)

EpvmPick(scores, candidates) == EpvmPickLoop(scores, candidates, 2, candidates[1])

\* The stats refreshes of Epvm.Score that fail: none, or (a fault of the
\* network) the refresh of one candidate.
ScoreFailures(candidates) ==
    IF Scheduler = "epvm" /\ Faults < budget.faults
    THEN {{}} \cup {{w} : w \in Range(candidates)}
    ELSE {{}}

\* Manager.selectWorker: the worker picked among the candidates; 0 stands for
\* the error returned when there is no candidate.
selectWorker(t, last, failed) ==
    LET candidates == SelectCandidateNodes(t, WorkerNodes) IN
    IF candidates = <<>> THEN 0
    ELSE IF Scheduler = "roundrobin"
         THEN RoundRobinPick(RoundRobinScore(last, NumWorkers), NumWorkers) + 1
         ELSE EpvmPick(EpvmScore(candidates, failed), candidates)

\* Node.UpdateStats on the nodes given: Disk and DiskAllocated as reported.
UpdateStats(disk, nodes) ==
    [w \in Workers |-> IF w \in nodes THEN NodeDisk ELSE disk[w]]

\* ------------------------------------------------------- worker REST API
\* Worker.AddTask, called by the worker's StartTaskHandler (201).
WorkerAddTask(q, w, t) == [q EXCEPT ![w] = Append(q[w], t)]

\* The error of MemoryStore.Get: nil for a stored key; for any other key an
\* error made by fmt.Errorf, which is not store.ErrKeyNotFound and wraps
\* nothing.
StoreGetError(db, key) == IF StoreHas(db, key) THEN "nil" ELSE "Errorf"

\* The status a StopTaskHandler answers for the error of Get: 404 for
\* store.ErrKeyNotFound, 500 for any other error.
StopTaskStatus(err) ==
    IF err = "nil" THEN 204
    ELSE IF err = "ErrKeyNotFound" THEN 404 ELSE 500

\* The worker's StopTaskHandler: 204 and the stored task queued as Completed,
\* or the status of the error for a task the worker store does not hold.
WorkerStopStatus(w, id) == StopTaskStatus(StoreGetError(Db[w], id))

WorkerStopQueue(q, w, id) ==
    IF StoreHas(Db[w], id)
    THEN WorkerAddTask(q, w, [Db[w][id] EXCEPT !.State = "Completed"])
    ELSE q

\* ------------------------------------------------------ manager dispatch
\* A dispatch that leaves the list of the worker as it is.
sendWorkWorkerTaskMapSkipped(m, w, id) == m

\* What sendWork writes for a task it dispatches (manager.go 188-190).
sendWorkWorkerTaskMap(m, w, id) == [m EXCEPT ![w] = Append(m[w], id)]

sendWorkTaskWorkerMap(m, w, id) == MapPut(m, id, w)

\* An event store that keeps the last event only.
sendWorkEventDbLastOnly(db, tEvent) == MapPut(<<>>, tEvent.Id, tEvent)

\* sendWork first stores the event under its id (manager.go 150).
sendWorkEventDb(db, tEvent) == MapPut(db, tEvent.Id, tEvent)

\* A dispatch that does not store the task.
sendWorkTaskDbSkipped(db, tEvent) == db

sendWorkTaskDb(db, tEvent) == StorePut(db, tEvent.Task.Id, tEvent.Task)

\* A dispatch that forgets the event after a transport error.
sendWorkRetryDropped(senders, tEvent) == senders

\* After a transport error sendWork hands the event to AddTask again
\* (manager.go 210): one more goroutine waiting to send it.
sendWorkRetry(senders, tEvent) == Append(senders, tEvent)

\* The follow-up branch of sendWork: the event's id is a key of TaskWorkerMap.
sendWorkFound(tEvent) == tEvent.Id \in DOMAIN TaskWorkerMap

\* Manager.stopTask: DELETE /tasks/{id} on the worker; TaskCount-- on a 204.
\* ok is FALSE for a transport error.
stopTask(tEvent, worker, ok) ==
    /\ UNCHANGED << TaskDb, WorkerTaskMap, TaskWorkerMap, LastWorker, nodeDisk >>
    /\ IF ok
       THEN /\ Queue' = WorkerStopQueue(Queue, worker, tEvent.Task.Id)
            /\ TaskCount' = IF WorkerStopStatus(worker, tEvent.Task.Id) = 204
                            THEN [TaskCount EXCEPT ![worker] = @ - 1]
                            ELSE TaskCount
            /\ UNCHANGED transportErrors
       ELSE /\ Faults < budget.faults
            /\ transportErrors' = transportErrors + 1
            /\ UNCHANGED << Queue, TaskCount >>
    /\ addTaskSenders' = addTaskSenders

\* The new-task branch of sendWork: select a worker (without a candidate the
\* event is dropped), fill both maps, store the task, POST the event; a
\* transport error hands the event to AddTask again, a 201 counts the task on
\* the node.
sendWorkNew(tEvent, ok) ==
    LET candidates == SelectCandidateNodes(tEvent.Task, WorkerNodes) IN
    \E failed \in ScoreFailures(candidates) :
        LET w == selectWorker(tEvent.Task, LastWorker, failed)
            errs == Cardinality(failed)
        IN  IF w = 0
            THEN /\ ok
                 /\ UNCHANGED << addTaskSenders, TaskDb, WorkerTaskMap,
                                 TaskWorkerMap, LastWorker, TaskCount, Queue,
                                 transportErrors, nodeDisk >>
            ELSE /\ LastWorker' = IF Scheduler = "roundrobin"
                                  THEN RoundRobinNext(LastWorker, NumWorkers)
                                  ELSE LastWorker
                 /\ nodeDisk' = IF Scheduler = "roundrobin"
                                THEN nodeDisk
                                ELSE UpdateStats(nodeDisk, Range(candidates) \ failed)
                 /\ WorkerTaskMap' = sendWorkWorkerTaskMap(WorkerTaskMap, w, tEvent.Task.Id)
                 /\ TaskWorkerMap' = sendWorkTaskWorkerMap(TaskWorkerMap, w, tEvent.Task.Id)
                 /\ TaskDb' = sendWorkTaskDb(TaskDb, tEvent)
                 /\ IF ok
                    THEN /\ Queue' = WorkerAddTask(Queue, w, tEvent.Task)
                         /\ TaskCount' = [TaskCount EXCEPT ![w] = @ + 1]
                         /\ addTaskSenders' = addTaskSenders
                         /\ transportErrors' = transportErrors + errs
                    ELSE /\ Faults + errs < budget.faults
                         /\ transportErrors' = transportErrors + errs + 1
                         /\ addTaskSenders' = sendWorkRetry(addTaskSenders, tEvent)
                         /\ UNCHANGED << Queue, TaskCount >>

\* The dispatch loop: receive one event and run sendWork on it.
SendWork(ok) ==
    /\ Pending # <<>>
    /\ LET tEvent == Head(Pending) IN
       /\ Pending' = Tail(Pending)
       /\ EventDb' = sendWorkEventDb(EventDb, tEvent)
       /\ IF sendWorkFound(tEvent)
          THEN IF /\ StoreHas(TaskDb, tEvent.Task.Id)
                  /\ tEvent.State = "Completed"
                  /\ ValidStateTransition(TaskDb[tEvent.Task.Id].State, tEvent.State)
               THEN stopTask(tEvent, TaskWorkerMap[tEvent.Id], ok)
               ELSE /\ ok
                    /\ UNCHANGED << addTaskSenders, TaskDb, WorkerTaskMap,
                                    TaskWorkerMap, LastWorker, TaskCount, Queue,
                                    transportErrors, nodeDisk >>
          ELSE sendWorkNew(tEvent, ok)
    /\ UNCHANGED << healthTasks, restartsIssued, Db, runnerTask, updaterTasks,
                    containers, nextContainer, startedContainers, clientVars, runFailures, exits,
                    walk, budget, Scheduler, call >>


\* -------------------------------------------------------- manager health
\* A health check that lets a task with RestartCount 3 through.
healthRestartsOffByOne(t) == ~(t.RestartCount > MaxRestarts) /\ t.State = "Failed"

\* checkTasksHealth restarts a listed task when RestartCount < 3 and it Failed.
healthRestarts(t) == ~(t.RestartCount >= MaxRestarts) /\ t.State = "Failed"

\* The loop passes over the tasks it does not restart without any effect.
RECURSIVE healthSkip(_)
healthSkip(tasks) ==
    IF tasks = <<>> \/ healthRestarts(Head(tasks))
    THEN tasks
    ELSE healthSkip(Tail(tasks))

\* A restartTask that counts every restart twice.
restartTaskUpdateTwice(t) ==
    [t EXCEPT !.State = "Scheduled", !.RestartCount = t.RestartCount + 2]

\* What restartTask stores and sends: State Scheduled, RestartCount + 1.
restartTaskUpdate(t) ==
    [t EXCEPT !.State = "Scheduled", !.RestartCount = t.RestartCount + 1]

Min(a, b) == IF a < b THEN a ELSE b

\* checkTasksHealth, first part: GetTasks lists the store.
CheckTasksHealth ==
    /\ healthTasks = <<>>
    /\ healthSkip(StoreList(TaskDb)) # <<>>
    /\ healthTasks' = healthSkip(StoreList(TaskDb))
    /\ UNCHANGED << addTaskSenders, Pending, TaskDb, EventDb, WorkerTaskMap,
                    TaskWorkerMap, LastWorker, TaskCount, restartsIssued,
                    workerVars, clientVars, faultVars, walk, envVars >>

\* checkTasksHealth, the loop: restartTask on the next listed task to restart.
\* The task is stored, then POSTed to the worker TaskWorkerMap names.
RestartTask(ok) ==
    /\ healthTasks # <<>>
    /\ LET t == restartTaskUpdate(Head(healthTasks))
           w == TaskWorkerMap[t.Id]
       IN  /\ healthTasks' = healthSkip(Tail(healthTasks))
           /\ TaskDb' = StorePut(TaskDb, t.Id, t)
           /\ restartsIssued' = [restartsIssued EXCEPT
                                   ![t.Id] = Min(@ + 1, MaxRestarts + 1)]
           /\ IF ok
              THEN /\ Queue' = WorkerAddTask(Queue, w, t)
                   /\ UNCHANGED transportErrors
              ELSE /\ Faults < budget.faults
                   /\ transportErrors' = transportErrors + 1
                   /\ UNCHANGED Queue
    /\ UNCHANGED << addTaskSenders, Pending, EventDb, WorkerTaskMap,
                    TaskWorkerMap, LastWorker, TaskCount, Db, runnerTask,
                    updaterTasks, containers, nextContainer, startedContainers, clientVars,
                    runFailures, exits, walk, envVars >>

\* --------------------------------------------------------- manager stats
\* Manager.updateNodesStats: UpdateStats on every node; the refresh of a node
\* that fails (a fault of the network) leaves the node as it was.
UpdateNodesStats ==
    \E failed \in {{}} \cup {{w} : w \in Workers} :
        /\ failed # {} => Faults < budget.faults
        /\ nodeDisk' = UpdateStats(nodeDisk, Workers \ failed)
        /\ transportErrors' = transportErrors + Cardinality(failed)
        /\ nodeDisk' # nodeDisk \/ failed # {}
        /\ UNCHANGED << managerVars, workerVars, clientVars, runFailures, exits,
                        walk, budget, Scheduler, call >>

\* -------------------------------------------------------- manager update
\* Manager.updateTask with the container id of the worker left out.
updateTaskNoContainerId(db, t) ==
    IF StoreHas(db, t.Id)
    THEN StorePut(db, t.Id,
            [db[t.Id] EXCEPT !.State = t.State, !.StartTime = t.StartTime,
                             !.FinishTime = t.FinishTime])
    ELSE db

\* Manager.updateTask with a FinishTime that every write flips.
updateTaskFlip(db, t) ==
    IF StoreHas(db, t.Id)
    THEN StorePut(db, t.Id,
            [db[t.Id] EXCEPT !.State = t.State, !.StartTime = t.StartTime,
                             !.FinishTime = 1 - db[t.Id].FinishTime,
                             !.ContainerId = t.ContainerId])
    ELSE db

\* Manager.updateTask that stores the task as the worker reported it.
updateTaskWhole(db, t) ==
    IF StoreHas(db, t.Id) THEN StorePut(db, t.Id, t) ELSE db

\* Manager.updateTask: four fields of the stored task take the worker's values;
\* a task the manager store does not hold is left out.
updateTask(db, t) ==
    IF StoreHas(db, t.Id)
    THEN StorePut(db, t.Id,
            [db[t.Id] EXCEPT !.State = t.State, !.StartTime = t.StartTime,
                             !.FinishTime = t.FinishTime,
                             !.ContainerId = t.ContainerId])
    ELSE db

RECURSIVE updateTaskAll(_, _)
updateTaskAll(db, tasks) ==
    IF tasks = <<>> THEN db
    ELSE updateTaskAll(updateTask(db, Head(tasks)), Tail(tasks))

\* Manager.updateTasks for one worker: GET /tasks, then updateTask on each.
ManagerUpdateTasks(w) ==
    /\ TaskDb' = updateTaskAll(TaskDb, StoreList(Db[w]))
    /\ TaskDb' # TaskDb
    /\ UNCHANGED << addTaskSenders, Pending, EventDb, WorkerTaskMap,
                    TaskWorkerMap, LastWorker, TaskCount, healthTasks,
                    restartsIssued, workerVars, clientVars, faultVars, walk, envVars >>


\* ------------------------------------------------------ container engine
\* Docker.Stop and Docker.Inspect answer an error for a container the local
\* engine does not hold.
EngineHas(w, cid) == cid \in DOMAIN containers[w]

EngineRemove(cs, cid) == [c \in DOMAIN cs \ {cid} |-> cs[c]]

\* ---------------------------------------------------------- worker runner
\* Worker.StopTask after a successful Docker.Stop: FinishTime, State Completed.
StopTaskUpdate(t) == [t EXCEPT !.FinishTime = 1, !.State = "Completed"]

\* Worker.StartTask after a successful Docker.Run.
StartTaskUpdate(t, cid) ==
    [t EXCEPT !.StartTime = 1, !.ContainerId = cid, !.State = "Running"]

\* Worker.StartTask after a failed Docker.Run.
StartTaskFailed(t) == [t EXCEPT !.StartTime = 1, !.State = "Failed"]

\* runNextTask resolves the stored task, inserting the queued one if absent.
runNextTaskStored(db, queuedTask) ==
    IF StoreHas(db, queuedTask.Id) THEN db[queuedTask.Id] ELSE queuedTask

runNextTaskInsert(db, queuedTask) ==
    IF StoreHas(db, queuedTask.Id) THEN db
    ELSE StorePut(db, queuedTask.Id, queuedTask)

\* A runner that acts on every queued task.
runNextTaskAcceptsAny(storedTask, queuedTask) == TRUE

\* Whether runNextTask acts on the queued task.
runNextTaskAccepts(storedTask, queuedTask) ==
    ValidStateTransition(storedTask.State, queuedTask.State)

\* A runner that calls StopTask for a Completed request only.
runNextTaskStopsCompleted(queuedTask) == queuedTask.State = "Completed"

\* Whether runNextTask first calls StopTask: a Completed request, or a
\* Scheduled one that carries a container id (restart).
runNextTaskStops(queuedTask) ==
    \/ queuedTask.State = "Completed"
    \/ queuedTask.State = "Scheduled" /\ queuedTask.ContainerId # 0

\* Worker.runNextTask up to the call of StartTask.
RunNextTask(w) ==
    /\ Queue[w] # <<>>
    /\ runnerTask[w] = NoTask
    /\ LET queuedTask == Head(Queue[w])
           storedTask == runNextTaskStored(Db[w], queuedTask)
           db1 == runNextTaskInsert(Db[w], queuedTask)
           accepted == runNextTaskAccepts(storedTask, queuedTask)
           stops1 == accepted /\ runNextTaskStops(queuedTask)
           stopped == stops1 /\ EngineHas(w, queuedTask.ContainerId)
       IN  /\ Queue' = [Queue EXCEPT ![w] = Tail(Queue[w])]
           /\ Db' = [Db EXCEPT ![w] =
                        IF stopped
                        THEN StorePut(db1, queuedTask.Id, StopTaskUpdate(queuedTask))
                        ELSE db1]
           /\ containers' = [containers EXCEPT ![w] =
                        IF stopped
                        THEN EngineRemove(containers[w], queuedTask.ContainerId)
                        ELSE containers[w]]
           /\ runnerTask' = [runnerTask EXCEPT ![w] =
                        IF /\ accepted
                           /\ queuedTask.State = "Scheduled"
                           /\ (stops1 => stopped)
                        THEN queuedTask
                        ELSE NoTask]
    /\ UNCHANGED << managerVars, updaterTasks, nextContainer, startedContainers, clientVars,
                    faultVars, walk, envVars >>

\* Worker.StartTask: Docker.Run, then the task stored as Running or Failed.
\* Docker.Run fails as a fault of the environment, or because the engine has
\* no room for another container.
StartTask(w, ok) ==
    /\ runnerTask[w] # NoTask
    /\ LET t == runnerTask[w] IN
       IF ok
       THEN /\ nextContainer <= budget.containers
            /\ nextContainer' = nextContainer + 1
            /\ startedContainers' = [startedContainers EXCEPT ![t.Id] = @ + 1]
            /\ containers' = [containers EXCEPT ![w] =
                                MapPut(containers[w], nextContainer, "running")]
            /\ Db' = [Db EXCEPT ![w] =
                        StorePut(Db[w], t.Id, StartTaskUpdate(t, nextContainer))]
            /\ UNCHANGED runFailures
       ELSE /\ \/ /\ Faults < budget.faults
                  /\ runFailures' = runFailures + 1
               \/ /\ nextContainer > budget.containers
                  /\ UNCHANGED runFailures
            /\ Db' = [Db EXCEPT ![w] = StorePut(Db[w], t.Id, StartTaskFailed(t))]
            /\ UNCHANGED << containers, nextContainer, startedContainers >>
    /\ runnerTask' = [runnerTask EXCEPT ![w] = NoTask]
    /\ UNCHANGED << managerVars, Queue, updaterTasks, clientVars,
                    transportErrors, exits, walk, envVars >>

\* --------------------------------------------------------- worker updater
\* updateTasks passes over the listed tasks that are not Running.
RECURSIVE updaterSkip(_)
updaterSkip(tasks) ==
    IF tasks = <<>> \/ Head(tasks).State = "Running"
    THEN tasks
    ELSE updaterSkip(Tail(tasks))

\* Worker.updateTasks, first part: the store is listed.
WorkerUpdateTasks(w) ==
    /\ updaterTasks[w] = <<>>
    /\ updaterSkip(StoreList(Db[w])) # <<>>
    /\ updaterTasks' = [updaterTasks EXCEPT ![w] = updaterSkip(StoreList(Db[w]))]
    /\ UNCHANGED << managerVars, Queue, Db, runnerTask, containers,
                    nextContainer, startedContainers, clientVars, faultVars, walk, envVars >>

\* What the loop of updateTasks stores for a listed Running task: nothing
\* after an inspection error or without port bindings, the listed task as
\* Failed for an exited container, the listed task with its bindings else.
updateTasksWrite(db, w, t, ports) ==
    IF ~EngineHas(w, t.ContainerId) THEN db
    ELSE IF containers[w][t.ContainerId] = "exited"
         THEN StorePut(db, t.Id, [t EXCEPT !.State = "Failed"])
         ELSE IF ports THEN StorePut(db, t.Id, t) ELSE db

\* Worker.updateTasks, the loop: inspect the next listed Running task.
InspectTask(w, ports) ==
    /\ updaterTasks[w] # <<>>
    /\ Db' = [Db EXCEPT ![w] = updateTasksWrite(Db[w], w, Head(updaterTasks[w]), ports)]
    /\ updaterTasks' = [updaterTasks EXCEPT ![w] = updaterSkip(Tail(updaterTasks[w]))]
    /\ UNCHANGED << managerVars, Queue, runnerTask, containers, nextContainer, startedContainers,
                    clientVars, faultVars, walk, envVars >>

\* The environment: a running container exits.
ContainerExit(w, cid) ==
    /\ Faults < budget.faults
    /\ EngineHas(w, cid)
    /\ containers[w][cid] = "running"
    /\ exits' = exits + 1
    /\ containers' = [containers EXCEPT ![w] = [@ EXCEPT ![cid] = "exited"]]
    /\ UNCHANGED << managerVars, Queue, Db, runnerTask, updaterTasks,
                    nextContainer, startedContainers, clientVars, transportErrors, runFailures, walk, envVars >>

\* ------------------------------------------------------- specification
Next ==
    \/ \E k \in 1..MaxTasks : ManagerStartTaskHandler(k)
    \/ \E id \in TaskIds : ManagerStopTaskHandler(id)
    \/ \E i \in 1..Len(addTaskSenders) : AddTaskSend(i)
    \/ \E ok \in BOOLEAN : SendWork(ok)
    \/ CheckTasksHealth
    \/ \E ok \in BOOLEAN : RestartTask(ok)
    \/ \E w \in Workers : ManagerUpdateTasks(w)
    \/ \E w \in Workers : RunNextTask(w)
    \/ \E w \in Workers, ok \in BOOLEAN : StartTask(w, ok)
    \/ \E w \in Workers : WorkerUpdateTasks(w)
    \/ \E w \in Workers, ports \in BOOLEAN : InspectTask(w, ports)
    \/ \E w \in Workers, cid \in 1..budget.containers : ContainerExit(w, cid)

Spec == Init /\ [][Next]_vars

\* ------------------------------------------------- state machine walk
\* One task is asked to take one target state after the other, from Pending;
\* every request is decided by ValidStateTransition and recorded.
WalkState ==
    IF walk = <<>> THEN "Pending"
    ELSE IF walk[Len(walk)].ok THEN walk[Len(walk)].to
         ELSE walk[Len(walk)].from

WalkStep(target) ==
    /\ Len(walk) < MaxWalk
    /\ walk' = Append(walk, [ from |-> WalkState, to |-> target,
                              ok |-> ValidStateTransition(WalkState, target) ])
    /\ UNCHANGED << managerVars, workerVars, clientVars, faultVars, envVars >>

NextWalk == \E target \in States : WalkStep(target)

SpecWalk == Init /\ [][NextWalk]_vars

\* ------------------------------------------------------------------ C1
\* The transition table as the specification states it.
C1_Table ==
    [ Pending   |-> {"Scheduled"},
      Scheduled |-> {"Running", "Failed"},
      Running   |-> {"Completed", "Failed", "Scheduled"},
      Completed |-> {},
      Failed    |-> {"Scheduled"} ]

\* C1: ValidStateTransition(current, target) is true exactly when current =
\* target or target is in the table Pending->{Scheduled}, Scheduled->{Running,
\* Failed}, Running->{Completed, Failed, Scheduled}, Completed->{},
\* Failed->{Scheduled}: every request of the walk was decided that way.
C1_ValidStateTransitionIsTable ==
    \A i \in 1..Len(walk) :
        walk[i].ok <=> (walk[i].from = walk[i].to
                          \/ walk[i].to \in C1_Table[walk[i].from])

\* A task that reached Completed was refused Scheduled.
C1_Witness ==
    \E i \in 1..Len(walk) :
        walk[i].from = "Completed" /\ walk[i].to = "Scheduled" /\ ~walk[i].ok

\* ------------------------------------------------------------------ C2
\* C2: submitting the same TaskEvent twice results in exactly one container
\* started for its task: as long as no restart was issued for a task, Docker.Run
\* has started at most one container for it.
C2_ExactlyOneContainer ==
    \A id \in TaskIds :
        restartsIssued[id] = 0 => startedContainers[id] <= 1

\* ------------------------------------------------------------------ C3
\* A step of the dispatch loop: the head of the channel is received.
DispatchStep == Pending # <<>> /\ Pending' = Tail(Pending)

\* The event received is a follow-up: its task is mapped to a worker, the
\* target is Completed and the transition from the stored state is legal.
C3_FollowUpStop ==
    /\ DispatchStep
    /\ Head(Pending).Task.Id \in DOMAIN TaskWorkerMap
    /\ Head(Pending).State = "Completed"
    /\ StoreHas(TaskDb, Head(Pending).Task.Id)
    /\ ValidStateTransition(TaskDb[Head(Pending).Task.Id].State, "Completed")

\* C3: on a legal Completed event for a mapped task the manager sends a DELETE
\* to the mapped worker only, does not invoke the scheduler, leaves both maps
\* alone, and decrements that node's TaskCount by one on a 204.
C3_FollowUpStopGoesToMappedWorker ==
    [][ C3_FollowUpStop =>
          LET id == Head(Pending).Task.Id
              w  == TaskWorkerMap[id]
          IN  /\ LastWorker' = LastWorker
              /\ WorkerTaskMap' = WorkerTaskMap
              /\ TaskWorkerMap' = TaskWorkerMap
              /\ \A w2 \in Workers \ {w} :
                    Queue'[w2] = Queue[w2] /\ TaskCount'[w2] = TaskCount[w2]
              /\ \/ Queue'[w] = Queue[w] /\ TaskCount'[w] = TaskCount[w]
                 \/ /\ StoreHas(Db[w], id)
                    /\ Queue'[w] = Append(Queue[w],
                                      [Db[w][id] EXCEPT !.State = "Completed"])
                    /\ TaskCount'[w] = TaskCount[w] - 1 ]_vars

\* ------------------------------------------------------------------ C4
\* C4: in a worker's store every change of a stored task's State is a legal
\* transition.
C4_WorkerWritesAreLegal ==
    [][ \A w \in Workers, id \in TaskIds :
          (StoreHas(Db[w], id) /\ Db'[w][id].State # Db[w][id].State)
             => ValidStateTransition(Db[w][id].State, Db'[w][id].State) ]_vars

\* ------------------------------------------------------------------ C5
\* C5: in the manager's store every change of a stored task's State (by
\* sendWork, restartTask or updateTask) is a legal transition.
C5_ManagerWritesAreLegal ==
    [][ \A id \in TaskIds :
          (StoreHas(TaskDb, id) /\ TaskDb'[id].State # TaskDb[id].State)
             => ValidStateTransition(TaskDb[id].State, TaskDb'[id].State) ]_vars

\* ------------------------------------------------------------------ C6
\* How often a task id occurs in the lists of WorkerTaskMap.
Occurrences(id) ==
    Cardinality(UNION { { <<w, i>> : i \in { j \in 1..Len(WorkerTaskMap[w]) :
                                               WorkerTaskMap[w][j] = id } } :
                        w \in Workers })

\* C6: each task of the manager store is in no worker's list, or in exactly
\* one worker's list exactly once.
C6_TaskInOneWorkerListOnce ==
    \A id \in StoreKeys(TaskDb) : Occurrences(id) <= 1

\* ------------------------------------------------------------------ C7
\* C7: every task in a worker's store is in the manager's store and has an
\* entry in TaskWorkerMap and in WorkerTaskMap.
C7_WorkerTaskKnownToManager ==
    \A w \in Workers : \A id \in StoreKeys(Db[w]) :
        /\ StoreHas(TaskDb, id)
        /\ id \in DOMAIN TaskWorkerMap
        /\ \E w2 \in Workers : id \in Range(WorkerTaskMap[w2])

\* A worker has started the container of a task it stored.
C7_Witness ==
    \E w \in Workers : \E id \in StoreKeys(Db[w]) :
        Db[w][id].State = "Running" /\ TaskCount[w] > 0

\* ------------------------------------------------------------------ C8
\* C8: the manager issues at most 3 restarts for a task, and the RestartCount
\* it stores never exceeds 3.
C8_AtMostThreeRestarts ==
    \A id \in TaskIds :
        /\ restartsIssued[id] <= 3
        /\ StoreHas(TaskDb, id) => TaskDb[id].RestartCount <= 3

\* ------------------------------------------------------------------ C9
C9_Restartable(t) == t.State = "Failed" /\ t.RestartCount < 3

\* C9: a pass of the health loop restarts exactly the listed tasks that are
\* Failed with RestartCount below 3; for any other task it sends no request
\* and writes nothing. A pass lists the store without any write, every visit
\* that acts is a restart of such a task (stored as Scheduled with
\* RestartCount + 1, sent to its worker at most), no such task of the list is
\* left out, and nothing else issues a restart.
C9_HealthPassRestartsExactlyFailed ==
    [][ /\ (healthTasks = <<>> /\ healthTasks' # <<>>) =>
              /\ SelectSeq(healthTasks', C9_Restartable)
                    = SelectSeq(StoreList(TaskDb), C9_Restartable)
              /\ C9_Restartable(Head(healthTasks'))
              /\ UNCHANGED << TaskDb, Queue, restartsIssued >>
        /\ (healthTasks # <<>> /\ healthTasks' # healthTasks) =>
              LET t == Head(healthTasks) IN
              /\ C9_Restartable(t)
              /\ TaskDb' = [TaskDb EXCEPT ![t.Id] =
                              [t EXCEPT !.State = "Scheduled",
                                        !.RestartCount = t.RestartCount + 1]]
              /\ \A id \in TaskIds \ {t.Id} :
                    restartsIssued'[id] = restartsIssued[id]
              /\ \A w \in Workers :
                    \/ Queue'[w] = Queue[w]
                    \/ /\ w = TaskWorkerMap[t.Id]
                       /\ Queue'[w] = Append(Queue[w], TaskDb'[t.Id])
              /\ SelectSeq(healthTasks', C9_Restartable)
                    = SelectSeq(Tail(healthTasks), C9_Restartable)
              /\ healthTasks' # <<>> => C9_Restartable(Head(healthTasks'))
        /\ (restartsIssued' # restartsIssued) =>
              (healthTasks # <<>> /\ healthTasks' # healthTasks) ]_vars

\* A task that failed after its third restart, left alone by the health loop.
C9_Witness ==
    \E id \in StoreKeys(TaskDb) :
        /\ TaskDb[id].State = "Failed"
        /\ TaskDb[id].RestartCount = 3
        /\ restartsIssued[id] = 3
        /\ healthTasks = <<>>

\* ----------------------------------------------------------------- C10
\* The dispatch loop and the goroutines of AddTask are scheduled fairly.
FairSpec ==
    /\ Spec
    /\ WF_vars(\E i \in 1..Len(addTaskSenders) : AddTaskSend(i))
    /\ WF_vars(\E ok \in BOOLEAN : SendWork(ok))

\* The events that wait to be dispatched: held by a goroutine of AddTask or
\* in the channel.
Awaiting == Range(addTaskSenders) \cup Range(Pending)

RECURSIVE SumTaskCount(_)
SumTaskCount(S) ==
    IF S = {} THEN 0
    ELSE LET w == CHOOSE x \in S : TRUE IN TaskCount[w] + SumTaskCount(S \ {w})

\* C10: an event whose POST failed with a transport error is not lost (every
\* event the manager was handed waits to be dispatched or was accepted by a
\* worker), and under fair scheduling an event that was dispatched before and
\* waits again is eventually POSTed and accepted.
C10_RetriedEventIsDelivered ==
    /\ [](SumTaskCount(Workers) + Len(addTaskSenders) + Len(Pending)
             = submits + stops)
    /\ \A k \in 1..MaxTasks :
          (ClientEvent(k) \in Awaiting /\ ClientEvent(k).Id \in DOMAIN EventDb
              /\ transportErrors > 0)
            ~> (ClientEvent(k) \notin Awaiting /\ SumTaskCount(Workers) > 0)

\* The only fault was the transport error of a dispatch; the event was sent
\* again and accepted by a worker.
C10_Witness ==
    /\ transportErrors = 1
    /\ \A id \in TaskIds : restartsIssued[id] = 0
    /\ submits = 1 /\ stops = 0
    /\ Awaiting = {}
    /\ SumTaskCount(Workers) = 1

\* ----------------------------------------------------------------- C11
\* One submitted event and a network that fails more than once.
SpecRetry == InitWith(RetryRequests, RetryFaults, "roundrobin") /\ [][Next]_vars

\* C11: a dispatch whose POST fails with a transport error is retried once.
\* When one event was submitted and the dispatch loop receives it again (it is
\* in the event store already: this is the retry), it is not handed to AddTask
\* another time; a dispatch without a transport error never hands the event
\* to AddTask.
C11_RetriedAtMostOnce ==
    [][ /\ (DispatchStep /\ submits = 1 /\ stops = 0
              /\ Head(Pending).Id \in DOMAIN EventDb)
           => addTaskSenders' = addTaskSenders
        /\ (DispatchStep /\ transportErrors' = transportErrors)
           => addTaskSenders' = addTaskSenders ]_vars

\* ----------------------------------------------------------------- C12
\* C12: events handed to AddTask one after the other by one producer are
\* received in that order. As long as no dispatch was retried, every goroutine
\* of AddTask holds an event of the REST client, in the order of the calls:
\* the event that enters the channel is the one handed over first.
C12_FifoPerProducer ==
    [][ (transportErrors = 0 /\ Len(Pending') = Len(Pending) + 1)
          => Pending'[Len(Pending')] = Head(addTaskSenders) ]_vars

\* ----------------------------------------------------------------- C13
\* A burst of submissions, more than the channel holds, on a network and an
\* engine without faults: the REST client, the goroutines of AddTask, the
\* dispatch loop and the runner of each worker.
NextBurst ==
    \/ ManagerStartTaskHandler(1)
    \/ \E i \in 1..Len(addTaskSenders) : AddTaskSend(i)
    \/ \E ok \in BOOLEAN : SendWork(ok)
    \/ \E w \in Workers : RunNextTask(w)
    \/ \E w \in Workers, ok \in BOOLEAN : StartTask(w, ok)

\* The dispatch loop, the goroutines of AddTask and the runners are scheduled
\* fairly; nothing makes the dispatch loop run before the burst is over.
SpecBurst ==
    /\ InitWith(BurstRequests, 0, "roundrobin")
    /\ [][NextBurst]_vars
    /\ WF_vars(\E i \in 1..Len(addTaskSenders) : AddTaskSend(i))
    /\ WF_vars(\E ok \in BOOLEAN : SendWork(ok))
    /\ \A w \in Workers : WF_vars(RunNextTask(w))
    /\ \A w \in Workers : WF_vars(\E ok \in BOOLEAN : StartTask(w, ok))

NextHappy ==
    \/ \E k \in 1..MaxTasks : ManagerStartTaskHandler(k)
    \/ \E i \in 1..Len(addTaskSenders) : AddTaskSend(i)
    \/ \E ok \in BOOLEAN : SendWork(ok)
    \/ \E w \in Workers : RunNextTask(w)
    \/ \E w \in Workers, ok \in BOOLEAN : StartTask(w, ok)
    \/ \E w \in Workers : WorkerUpdateTasks(w)
    \/ \E w \in Workers, ports \in BOOLEAN : InspectTask(w, ports)
    \/ \E w \in Workers : ManagerUpdateTasks(w)

\* The loops are scheduled fairly.
HappyFairness ==
    /\ WF_vars(\E i \in 1..Len(addTaskSenders) : AddTaskSend(i))
    /\ WF_vars(\E ok \in BOOLEAN : SendWork(ok))
    /\ \A w \in Workers : WF_vars(RunNextTask(w))
    /\ \A w \in Workers : WF_vars(\E ok \in BOOLEAN : StartTask(w, ok))
    /\ \A w \in Workers : WF_vars(WorkerUpdateTasks(w))
    /\ \A w \in Workers : WF_vars(\E ports \in BOOLEAN : InspectTask(w, ports))
    /\ \A w \in Workers : WF_vars(ManagerUpdateTasks(w))

SpecHappy ==
    /\ InitWith(MaxRequests, 0, "roundrobin")
    /\ [][NextHappy]_vars
    /\ HappyFairness

\* C14: happy path. An event with target Scheduled that the manager accepted
\* (it waits to be dispatched) leads to the task store of the manager holding
\* its task as Running with a container id.
C14_ScheduledBecomesRunning ==
    \A k \in 1..MaxTasks :
        (ClientEvent(k) \in Awaiting)
          ~> (/\ StoreHas(TaskDb, ClientTask(k).Id)
              /\ TaskDb[ClientTask(k).Id].State = "Running"
              /\ TaskDb[ClientTask(k).Id].ContainerId # 0)

\* One task was submitted once, dispatched, started, and the manager has
\* merged the report of the worker.
C14_Witness ==
    /\ submits = 1
    /\ Awaiting = {}
    /\ \E id \in TaskIds :
          /\ StoreHas(TaskDb, id)
          /\ TaskDb[id].State = "Running"
          /\ TaskDb[id].ContainerId # 0
          /\ \E w \in Workers : StoreHas(Db[w], id) /\ Db[w][id] = TaskDb[id]

\* ----------------------------------------------------------------- C15
\* Submissions and stop requests on a network and an engine without faults,
\* the loops scheduled fairly.
NextStop ==
    \/ NextHappy
    \/ \E id \in TaskIds : ManagerStopTaskHandler(id)

SpecStop ==
    /\ InitWith(MaxRequests, 0, "roundrobin")
    /\ [][NextStop]_vars
    /\ HappyFairness

\* A stop event for the task waits to be dispatched.
StopAwaiting(id) ==
    \E e \in Awaiting : e.State = "Completed" /\ e.Task.Id = id

\* The container that worker w records for the task runs.
ContainerRuns(w, id) ==
    /\ StoreHas(Db[w], id)
    /\ EngineHas(w, Db[w][id].ContainerId)
    /\ containers[w][Db[w][id].ContainerId] = "running"

\* C15: stop liveness. For a task that is Running on worker w, an accepted
\* stop request leads to the container being stopped on w and to the manager
\* store holding the task as Completed with its FinishTime; a task the manager
\* holds as Completed stays Completed.
C15_StopCompletes ==
    /\ \A id \in TaskIds, w \in Workers :
          (StopAwaiting(id) /\ StoreHas(Db[w], id) /\ Db[w][id].State = "Running"
              /\ ContainerRuns(w, id))
            ~> (/\ TaskDb[id].State = "Completed"
                /\ TaskDb[id].FinishTime # 0
                /\ ~ContainerRuns(w, id))
    /\ [][\A id \in TaskIds :
            TaskDb[id].State = "Completed" => TaskDb'[id].State = "Completed"]_vars

\* ----------------------------------------------------------------- C16
\* Every loop of the manager and of the workers is scheduled fairly.
RestartFairness ==
    /\ HappyFairness
    /\ WF_vars(CheckTasksHealth)
    /\ WF_vars(\E ok \in BOOLEAN : RestartTask(ok))

\* The engines have room for every container a run can ask for: one for each
\* submission and one for each restart of it.
SpecRestart ==
    /\ InitBudget(MaxRequests, MaxFaults, MaxRequests * (MaxRestarts + 1),
                  "roundrobin")
    /\ [][Next]_vars
    /\ RestartFairness

\* The manager store holds the task in the given state with RestartCount n.
ManagerHolds(id, state, n) ==
    IF StoreHas(TaskDb, id)
    THEN TaskDb[id].State = state /\ TaskDb[id].RestartCount = n
    ELSE FALSE

\* The store of worker w holds the task in the given state.
WorkerHolds(w, id, state) ==
    IF StoreHas(Db[w], id) THEN Db[w][id].State = state ELSE FALSE

\* A request for the task is on its way to the runner of worker w, or a
\* health pass that restarts the task is under way.
RestartInFlight(w, id) ==
    \/ \E i \in 1..Len(Queue[w]) : Queue[w][i].Id = id
    \/ runnerTask[w].Id = id
    \/ \E i \in 1..Len(healthTasks) : healthTasks[i].Id = id

\* C16: restart liveness and order. When the task has become Failed on
\* worker w (no request for it is on its way there) and the manager holds it
\* with RestartCount n < 3, the manager store comes to hold it as Scheduled
\* with RestartCount n + 1, and after that the task is Running on w.
C16_FailedIsRestartedOnSameWorker ==
    \A id \in TaskIds, w \in Workers, n \in 0..(MaxRestarts - 1) :
        (/\ WorkerHolds(w, id, "Failed")
         /\ ~RestartInFlight(w, id)
         /\ \E state \in States : ManagerHolds(id, state, n))
          ~> (ManagerHolds(id, "Scheduled", n + 1)
                /\ <>WorkerHolds(w, id, "Running"))

\* ----------------------------------------------------------------- C17
\* A task is stored as Running by Worker.StartTask after a successful
\* Docker.Run, and the manager copies the state from the worker: the task has
\* been Running when a container was started for it.
EverRunning(id) == startedContainers[id] > 0

\* The task stores: the store of the manager and the store of each worker.
TaskStores == {TaskDb} \cup {Db[w] : w \in Workers}

\* The stores as they are after the step.
TaskStoresNext == {<<TaskDb, TaskDb'>>} \cup {<<Db[w], Db'[w]>> : w \in Workers}

\* C17: in every task store, the ContainerId of a task is non-empty if and
\* only if the task has been Running before. Stated by what follows from it
\* in each store: a stored container id belongs to a task that has been
\* Running, a task stored as Running has a container id, and the record that
\* replaces a Running one still has a container id.
C17_ContainerIdIffEverRunning ==
    /\ [](\A db \in TaskStores, id \in TaskIds :
            StoreHas(db, id) =>
                /\ db[id].ContainerId # 0 => EverRunning(id)
                /\ db[id].State = "Running" => db[id].ContainerId # 0)
    /\ [][\A st \in TaskStoresNext, id \in TaskIds :
            (StoreHas(st[1], id) /\ st[1][id].State = "Running"
                /\ StoreHas(st[2], id))
              => st[2][id].ContainerId # 0]_vars

FollowUpToDrop ==
    /\ Pending # <<>>
    /\ Head(Pending).Task.Id \in DOMAIN TaskWorkerMap
    /\ \/ Head(Pending).State # "Completed"
       \/ IF StoreHas(TaskDb, Head(Pending).Task.Id)
          THEN ~ValidStateTransition(TaskDb[Head(Pending).Task.Id].State,
                                     "Completed")
          ELSE FALSE

\* C19: a follow-up event that is not a legal stop request is dropped. The
\* dispatch of such an event sends no request to a worker and leaves the task
\* store, both maps and every TaskCount as they are.
C19_BadFollowUpIsDropped ==
    [][(DispatchStep /\ FollowUpToDrop)
          => UNCHANGED << TaskDb, WorkerTaskMap, TaskWorkerMap, TaskCount,
                          Queue, transportErrors >>]_vars

\* ----------------------------------------------------------------- C20
\* The manager with the load-aware scheduler: the loops of the manager and of
\* the workers, and the loop that refreshes the node stats.
NextEpvm ==
    \/ Next
    \/ UpdateNodesStats

SpecEpvm == InitWith(MaxRequests, MaxFaults, "epvm") /\ [][NextEpvm]_vars

\* The event at the head of the channel is for a new task and the scheduler
\* has no candidate node for it: no node has the disk the task asks for.
NoCandidate ==
    /\ Pending # <<>>
    /\ ~sendWorkFound(Head(Pending))
    /\ Scheduler = "epvm"
    /\ \A w \in Workers : Head(Pending).Task.Disk > nodeDisk[w]

\* C20: without a candidate node the event is dropped. The dispatch of a new
\* task for which no node is a candidate sends no POST, does not store the
\* task and leaves both maps and every TaskCount as they are; the event is
\* not handed to AddTask again.
C20_NoCandidateDropsEvent ==
    [][(DispatchStep /\ NoCandidate)
          => /\ selectWorker(Head(Pending).Task, LastWorker, {}) = 0
             /\ UNCHANGED << TaskDb, WorkerTaskMap, TaskWorkerMap, TaskCount,
                             Queue, transportErrors, addTaskSenders >>]_vars

\* Two events were dispatched: the first found no candidate (the node stats
\* had not been read yet) and was dropped, the second was sent to a worker.
C20_Witness ==
    /\ Scheduler = "epvm"
    /\ Cardinality(DOMAIN EventDb) = 2
    /\ Awaiting = {}
    /\ transportErrors = 0
    /\ SumTaskCount(Workers) = 1
    /\ Cardinality(DOMAIN TaskWorkerMap) = 1

\* ------------------------------------------------------- scheduler units
\* The program state stays as it is while a unit is called on its own.
ProgramUnchanged ==
    UNCHANGED << managerVars, workerVars, clientVars, faultVars, walk, budget,
                 Scheduler, nodeDisk >>

\* The candidate lists: up to MaxNodes nodes with different names, in any
\* order.
RECURSIVE NodeLists(_)
NodeLists(n) ==
    IF n = 0 THEN {<<>>}
    ELSE LET shorter == NodeLists(n - 1) IN
         shorter \cup {Append(l, x) : l \in {m \in shorter : Len(m) = n - 1},
                                       x \in 1..MaxNodes}

CandidateLists ==
    {l \in NodeLists(MaxNodes) :
        l # <<>> /\ \A i, j \in 1..Len(l) : i # j => l[i] # l[j]}

\* RoundRobin.Pick on a list of nodes; the scores are given by position.
CallRoundRobinPick ==
    \E nodes \in CandidateLists :
    \E scores \in [0..(Len(nodes) - 1) -> 1..MaxScore] :
        /\ call' = [ fn |-> "RoundRobin.Pick", nodes |-> nodes,
                     scores |-> [i \in 1..Len(nodes) |-> scores[i - 1]],
                     picked |-> nodes[RoundRobinPick(scores, Len(nodes)) + 1] ]
        /\ ProgramUnchanged

\* Epvm.Pick on a list of candidates; the scores are given by node name.
CallEpvmPick ==
    \E nodes \in CandidateLists :
    \E scores \in [Range(nodes) -> 1..MaxScore] :
        /\ call' = [ fn |-> "Epvm.Pick", nodes |-> nodes,
                     scores |-> [i \in 1..Len(nodes) |-> scores[nodes[i]]],
                     picked |-> EpvmPick(scores, nodes) ]
        /\ ProgramUnchanged

NextPick ==
    \/ CallRoundRobinPick
    \/ CallEpvmPick

SpecPick == Init /\ [][NextPick]_vars

\* ----------------------------------------------------------------- C21
\* C21: Pick of either scheduler, on a non-empty candidate list with a score
\* for every candidate, returns the first candidate of the list whose score
\* is the minimum over the candidates.
C21_PickIsFirstMinimum ==
    call.fn \in {"RoundRobin.Pick", "Epvm.Pick"} =>
        \E i \in 1..Len(call.nodes) :
            /\ call.picked = call.nodes[i]
            /\ \A j \in 1..Len(call.nodes) : call.scores[i] <= call.scores[j]
            /\ \A j \in 1..(i - 1) : call.scores[j] > call.scores[i]

\* Pick was called on three candidates of which the second and the third
\* share the minimum, and returned the second.
C21_Witness ==
    /\ call.fn \in {"RoundRobin.Pick", "Epvm.Pick"}
    /\ Len(call.nodes) = 3
    /\ call.scores = <<2, 1, 1>>
    /\ call.picked = call.nodes[2]

\* ----------------------------------------------------------------- C22
\* A round-robin scheduler of its own over n nodes, LastWorker 0 as
\* constructed, and the selections made with it so far.
NewRoundRobin ==
    \E n \in 1..MaxNodes :
        /\ call' = [ fn |-> "RoundRobin", n |-> n, LastWorker |-> 0,
                     picks |-> <<>>, TaskCount |-> [i \in 0..(n - 1) |-> 0] ]
        /\ ProgramUnchanged

\* One selection as selectWorker makes it, Score and then Pick, followed by
\* what sendWork does with the node: TaskCount++ after a 201 (ok), nothing
\* after a transport error.
RoundRobinSelect(ok) ==
    /\ call.fn = "RoundRobin"
    /\ Len(call.picks) < MaxSelections
    /\ LET picked == RoundRobinPick(RoundRobinScore(call.LastWorker, call.n),
                                    call.n)
       IN  call' = [ call EXCEPT
                       !.LastWorker = RoundRobinNext(call.LastWorker, call.n),
                       !.picks = Append(@, [index |-> picked, ok |-> ok]),
                       !.TaskCount[picked] = IF ok THEN @ + 1 ELSE @ ]
    /\ ProgramUnchanged

NextRoundRobin ==
    \/ NewRoundRobin
    \/ \E ok \in BOOLEAN : RoundRobinSelect(ok)

SpecRoundRobin == Init /\ [][NextRoundRobin]_vars

\* C22: with the round-robin scheduler over n nodes the k-th selection after
\* LastWorker = 0 picks the node at index k mod n; after six selections on
\* three nodes that were all dispatched, every node was selected twice and
\* the TaskCount of the nodes is (2, 2, 2).
C22_RoundRobinOrder ==
    call.fn = "RoundRobin" =>
        /\ \A k \in 1..Len(call.picks) : call.picks[k].index = k % call.n
        /\ (/\ call.n = 3
            /\ Len(call.picks) = 6
            /\ \A k \in 1..6 : call.picks[k].ok)
           => /\ \A i \in 0..2 :
                    Cardinality({k \in 1..6 : call.picks[k].index = i}) = 2
              /\ \A i \in 0..2 : call.TaskCount[i] = 2

\* Six selections on three nodes, all dispatched: indices 1, 2, 0, 1, 2, 0.
C22_Witness ==
    /\ call.fn = "RoundRobin"
    /\ call.n = 3
    /\ Len(call.picks) = 6
    /\ \A k \in 1..6 : call.picks[k].ok
    /\ [k \in 1..6 |-> call.picks[k].index] = <<1, 2, 0, 1, 2, 0>>
    /\ call.TaskCount = [i \in 0..2 |-> 2]

\* ----------------------------------------------------------------- C23
\* Node.UpdateStats with any report of the workers: per node, the disk that
\* is left (Disk - DiskAllocated).
ReportStats ==
    \E disk \in [Workers -> 0..MaxDisk] :
        /\ nodeDisk' = disk
        /\ UNCHANGED << managerVars, workerVars, clientVars, faultVars, walk,
                        budget, Scheduler, call >>

\* The lists of registered nodes a scheduler may be handed.
WorkerLists == {l \in CandidateLists : Range(l) \subseteq Workers}

\* SelectCandidateNodes of either scheduler for a task with any disk request
\* (a request decoded from JSON may be negative).
CallSelectCandidateNodes ==
    \E nodes \in WorkerLists, disk \in (-1)..(MaxDisk + 1),
       kind \in {"roundrobin", "epvm"} :
        LET t == [ZeroTask EXCEPT !.Disk = disk] IN
        /\ call' = [ fn |-> "SelectCandidateNodes", kind |-> kind,
                     nodes |-> nodes, disk |-> disk, free |-> nodeDisk,
                     candidates |->
                        IF kind = "roundrobin"
                        THEN RoundRobinSelectCandidateNodes(t, nodes)
                        ELSE EpvmSelectCandidateNodes(t, nodes) ]
        /\ ProgramUnchanged

NextCandidates ==
    \/ ReportStats
    \/ CallSelectCandidateNodes

SpecCandidates == Init /\ [][NextCandidates]_vars

\* The position of node w in the list l.
IndexOf(l, w) == CHOOSE i \in 1..Len(l) : l[i] = w

\* C23: SelectCandidateNodes of the load-aware scheduler returns exactly the
\* input nodes with task.Disk <= Disk - DiskAllocated, each once and in the
\* order of the input; that of the round-robin scheduler returns its input.
C23_CandidatesAreTheNodesWithRoom ==
    call.fn = "SelectCandidateNodes" =>
        IF call.kind = "roundrobin"
        THEN call.candidates = call.nodes
        ELSE /\ \A w \in Workers :
                    w \in Range(call.candidates)
                      <=> (w \in Range(call.nodes) /\ call.disk <= call.free[w])
             /\ \A i, j \in 1..Len(call.candidates) :
                    i < j => IndexOf(call.nodes, call.candidates[i])
                               < IndexOf(call.nodes, call.candidates[j])

\* The load-aware filter was handed two nodes and kept the second only.
C23_Witness ==
    /\ call.fn = "SelectCandidateNodes"
    /\ call.kind = "epvm"
    /\ Len(call.nodes) = 2
    /\ call.candidates = <<call.nodes[2]>>

\* ----------------------------------------------------------------- C24
\* DELETE /tasks/{taskId} sent to a worker by a client.
WorkerStopTaskHandler(w, id) ==
    /\ submits + stops < budget.requests
    /\ stops' = stops + 1
    /\ Queue' = WorkerStopQueue(Queue, w, id)
    /\ call' = [ fn |-> "Worker.StopTaskHandler", worker |-> w, id |-> id,
                 held |-> StoreHas(Db[w], id),
                 error |-> StoreGetError(Db[w], id),
                 status |-> WorkerStopStatus(w, id),
                 queued |-> Len(Queue'[w]) - Len(Queue[w]) ]
    /\ UNCHANGED << managerVars, Db, runnerTask, updaterTasks, containers,
                    nextContainer, startedContainers, submits, faultVars,
                    walk, budget, Scheduler, nodeDisk >>

NextWorkerApi ==
    \/ Next
    \/ \E w \in Workers, id \in TaskIds : WorkerStopTaskHandler(w, id)

SpecWorkerApi ==
    InitWith(MaxRequests, MaxFaults, "roundrobin") /\ [][NextWorkerApi]_vars

\* The runner of worker w is about to take a task that the stored task of the
\* same id cannot become.
IllegalAtRunner(w) ==
    /\ Queue[w] # <<>>
    /\ runnerTask[w] = NoTask
    /\ IF StoreHas(Db[w], Head(Queue[w]).Id)
       THEN ~ValidStateTransition(Db[w][Head(Queue[w]).Id].State,
                                  Head(Queue[w]).State)
       ELSE FALSE

\* C24: when the runner takes a task whose state is no legal transition from
\* the state of the stored task of the same id, the task is rejected: no
\* container is stopped or started (now or by a start left pending) and the
\* worker store is left as it is.
C24_IllegalTransitionRejected ==
    [][\A w \in Workers :
          (IllegalAtRunner(w) /\ Queue'[w] = Tail(Queue[w])
                              /\ Len(Queue'[w]) < Len(Queue[w])) =>
              /\ Db'[w] = Db[w]
              /\ containers'[w] = containers[w]
              /\ runnerTask'[w] = NoTask
              /\ UNCHANGED << nextContainer, startedContainers >>]_vars

\* A stop request waits at the runner for a task stored as Failed.
C24_Witness ==
    \E w \in Workers :
        /\ IllegalAtRunner(w)
        /\ Head(Queue[w]).State = "Completed"
        /\ Db[w][Head(Queue[w]).Id].State = "Failed"

\* ----------------------------------------------------------------- C25
\* The ids Manager.updateTask calls TaskDb.Put for, over the listed tasks:
\* every task the store holds, whether or not a field differs.
RECURSIVE updateTaskPuts(_, _)
updateTaskPuts(db, tasks) ==
    IF tasks = <<>> THEN <<>>
    ELSE (IF StoreHas(db, Head(tasks).Id) THEN <<Head(tasks).Id>> ELSE <<>>)
            \o updateTaskPuts(db, Tail(tasks))

\* Whether a run of updateTasks for worker w would come straight after another
\* one for w: the worker lists what it listed then and the manager store is
\* as that run left it.
SecondRun(w) ==
    /\ call.fn = "Manager.updateTasks"
    /\ call.worker = w
    /\ call.listed = StoreList(Db[w])
    /\ call.after = TaskDb

\* Manager.updateTasks for one worker, with a record of the run.
ManagerUpdateTasksCall(w) ==
    LET tasks == StoreList(Db[w])
        pass == IF call.fn = "Manager.updateTasks" THEN call.pass ELSE 0
    IN  /\ pass < MaxPasses
        /\ TaskDb' = updateTaskAll(TaskDb, tasks)
        /\ call' = [ fn |-> "Manager.updateTasks", worker |-> w,
                     pass |-> pass + 1, listed |-> tasks,
                     again |-> SecondRun(w),
                     puts |-> updateTaskPuts(TaskDb, tasks),
                     before |-> TaskDb, after |-> TaskDb' ]
        /\ UNCHANGED << addTaskSenders, Pending, EventDb, WorkerTaskMap,
                        TaskWorkerMap, LastWorker, TaskCount, healthTasks,
                        restartsIssued, workerVars, clientVars, faultVars,
                        walk, budget, Scheduler, nodeDisk >>

NextReconcile ==
    \/ Next
    \/ \E w \in Workers : ManagerUpdateTasksCall(w)

SpecReconcile ==
    InitWith(RetryRequests, MaxFaults, "roundrobin") /\ [][NextReconcile]_vars

\* C25 as stated: a run of updateTasks that follows another one, with no
\* worker-side change in between, performs no write to the manager store.
C25_SecondRunWritesNothing ==
    (call.fn = "Manager.updateTasks" /\ call.again) => call.puts = <<>>

\* C25, amended: such a run leaves every task of the manager store as it was;
\* it calls Put again for every listed task the store holds.
C25_SecondRunChangesNothing ==
    (call.fn = "Manager.updateTasks" /\ call.again) =>
        /\ call.after = call.before
        /\ Range(call.puts) = {t.Id : t \in Range(call.listed)}
                                  \cap StoreKeys(call.before)

\* A second run for a worker that lists a running task.
C25_Witness ==
    /\ call.fn = "Manager.updateTasks"
    /\ call.again
    /\ call.puts # <<>>
    /\ \E t \in Range(call.listed) : t.State = "Running"

\* ----------------------------------------------------------------- C26
\* C26: Get for a key that was never Put answers store.ErrKeyNotFound, and
\* DELETE /tasks/{taskId} for an id the store does not hold is answered with
\* 404 and queues nothing.
C26_UnknownIdIsNotFound ==
    (call.fn = "Worker.StopTaskHandler" /\ ~call.held) =>
        /\ call.error = "ErrKeyNotFound"
        /\ call.status = 404
        /\ call.queued = 0

\* ------------------------------------------------------------- the stores
\* State is an int: encoding/json writes its number.
StateNumber(state) ==
    CASE state = "Pending" -> 0
      [] state = "Scheduled" -> 1
      [] state = "Running" -> 2
      [] state = "Completed" -> 3
      [] state = "Failed" -> 4

StateOfNumber(n) == CHOOSE state \in States : StateNumber(state) = n

\* json.Marshal of a task whose ContainerId is not written.
MarshalNoContainerId(t) ==
    [t EXCEPT !.State = StateNumber(t.State), !.ContainerId = 0]

\* json.Marshal of a task: an object of its fields, the state as a number.
Marshal(t) == [t EXCEPT !.State = StateNumber(t.State)]

\* json.Unmarshal into a zero task.
Unmarshal(jsonVal) == [jsonVal EXCEPT !.State = StateOfNumber(jsonVal.State)]

\* The error of json.Unmarshal: none for what json.Marshal wrote.
UnmarshalError(jsonVal) ==
    IF jsonVal.State \in 0..4 THEN "nil" ELSE "SyntaxError"

\* key.String() of a uuid.
UUIDString(id) == <<"string", id[2]>>

\* No bytes under a key.
NilBytes == [nil |-> TRUE]

\* The bucket of a bolt file: the bytes stored under each key, or nil.
NewBucket == [key \in {UUIDString(id) : id \in TaskIds} |-> NilBytes]

\* PersistedStore.Put.
PersistedPut(bucket, key, value) ==
    [bucket EXCEPT ![UUIDString(key)] = Marshal(value)]

\* PersistedStore.Get: the value and the error.
PersistedGet(bucket, key) ==
    IF bucket[UUIDString(key)] = NilBytes
    THEN [value |-> ZeroTask, err |-> "Errorf"]
    ELSE [value |-> Unmarshal(bucket[UUIDString(key)]),
          err |-> UnmarshalError(bucket[UUIDString(key)])]

\* PersistedStore.List: the cursor visits the keys in order, and a value is
\* appended when its json.Unmarshal failed.
PersistedList(bucket) ==
    LET keys == SelectSeq(SetToSeq(TaskIds),
                          LAMBDA id : bucket[UUIDString(id)] # NilBytes)
        failed == SelectSeq(keys,
                    LAMBDA id : UnmarshalError(bucket[UUIDString(id)]) # "nil")
    IN  [i \in 1..Len(failed) |-> ZeroTask]

\* PersistedStore.Count: KeyN of the bucket.
PersistedCount(bucket) ==
    Cardinality({key \in DOMAIN bucket : bucket[key] # NilBytes})

\* MemoryStore.Get: the value and the error.
MemoryGet(db, key) ==
    [ value |-> IF StoreHas(db, key) THEN db[key] ELSE ZeroTask,
      err |-> StoreGetError(db, key) ]

\* The operations of a store of either kind.
StoreNew(kind) == IF kind = "memory" THEN EmptyStore ELSE NewBucket

StoreOpPut(kind, db, key, value) ==
    IF kind = "memory" THEN StorePut(db, key, value)
    ELSE PersistedPut(db, key, value)

StoreOpGet(kind, db, key) ==
    IF kind = "memory" THEN MemoryGet(db, key) ELSE PersistedGet(db, key)

StoreOpList(kind, db) ==
    IF kind = "memory" THEN StoreList(db) ELSE PersistedList(db)

StoreOpCount(kind, db) ==
    IF kind = "memory" THEN Cardinality(StoreKeys(db)) ELSE PersistedCount(db)

\* The values a caller puts under a key: tasks of that id.
StoreValues(key) ==
    {[ClientTask(key[2]) EXCEPT !.State = state, !.ContainerId = cid] :
        state \in {"Scheduled", "Running"}, cid \in {0, 1}}

\* A store is made: call.db is the map or the bucket, call.written what the
\* caller has put so far.
CallNewStore ==
    \E kind \in {"memory", "persisted"} :
        /\ call' = [ fn |-> "Store", kind |-> kind, db |-> StoreNew(kind),
                     written |-> EmptyStore, reopened |-> FALSE,
                     op |-> "New", key |-> ZeroUUID, result |-> <<>> ]
        /\ ProgramUnchanged

CallPut ==
    /\ call.fn = "Store"
    /\ \E key \in TaskIds : \E value \in StoreValues(key) :
          call' = [call EXCEPT
                     !.db = StoreOpPut(call.kind, call.db, key, value),
                     !.written = StorePut(call.written, key, value),
                     !.op = "Put", !.key = key, !.result = <<>>]
    /\ ProgramUnchanged

CallGet ==
    /\ call.fn = "Store"
    /\ \E key \in TaskIds :
          call' = [call EXCEPT
                     !.op = "Get", !.key = key,
                     !.result = StoreOpGet(call.kind, call.db, key)]
    /\ ProgramUnchanged

CallList ==
    /\ call.fn = "Store"
    /\ call' = [call EXCEPT !.op = "List", !.key = ZeroUUID,
                            !.result = StoreOpList(call.kind, call.db)]
    /\ ProgramUnchanged

CallCount ==
    /\ call.fn = "Store"
    /\ call' = [call EXCEPT !.op = "Count", !.key = ZeroUUID,
                            !.result = StoreOpCount(call.kind, call.db)]
    /\ ProgramUnchanged

\* Close, then the store is made again: a new map, or the same bolt file.
CallReopen ==
    /\ call.fn = "Store"
    /\ call' = [call EXCEPT
                  !.db = IF call.kind = "memory" THEN EmptyStore ELSE call.db,
                  !.written = IF call.kind = "memory" THEN EmptyStore
                              ELSE call.written,
                  !.reopened = TRUE,
                  !.op = "Reopen", !.key = ZeroUUID, !.result = <<>>]
    /\ ProgramUnchanged

NextStore ==
    \/ CallNewStore
    \/ CallPut
    \/ CallGet
    \/ CallList
    \/ CallCount
    \/ CallReopen

SpecStore == Init /\ [][NextStore]_vars

\* ----------------------------------------------------------------- C27
\* C27: after Puts on N distinct keys, List returns exactly N entries, the
\* stored values (none zero-valued, none missing), and Count returns N.
C27_ListReturnsTheStoredValues ==
    call.fn = "Store" =>
        LET keys == StoreKeys(call.written) IN
        /\ call.op = "List" =>
              /\ Len(call.result) = Cardinality(keys)
              /\ Range(call.result) = {call.written[key] : key \in keys}
        /\ call.op = "Count" => call.result = Cardinality(keys)

InspectStatus(w, t) ==
    IF EngineHas(w, t.ContainerId) THEN containers[w][t.ContainerId]
    ELSE "error"

\* What updateTasks stores after an inspection that answered status.
updateTasksPut(db, t, status, ports) ==
    IF status = "error" THEN db
    ELSE IF status = "exited"
         THEN StorePut(db, t.Id, [t EXCEPT !.State = "Failed"])
         ELSE IF ports THEN StorePut(db, t.Id, t) ELSE db

\* Worker.updateTasks, the loop, in two steps. First the container of the
\* next listed Running task is inspected; the runner may act before the
\* updater goes on.
InspectTaskCall(w, ports) ==
    /\ updaterTasks[w] # <<>>
    /\ call.fn # "Worker.InspectTask"
    /\ call' = [ fn |-> "Worker.InspectTask", worker |-> w,
                 task |-> Head(updaterTasks[w]),
                 status |-> InspectStatus(w, Head(updaterTasks[w])),
                 ports |-> ports ]
    /\ ProgramUnchanged

\* Then the listed task is written back according to the inspection.
UpdateTasksPut(w) ==
    /\ call.fn = "Worker.InspectTask"
    /\ call.worker = w
    /\ Db' = [Db EXCEPT ![w] =
                updateTasksPut(Db[w], call.task, call.status, call.ports)]
    /\ updaterTasks' = [updaterTasks EXCEPT ![w] = updaterSkip(Tail(updaterTasks[w]))]
    /\ call' = NoCall
    /\ UNCHANGED << managerVars, Queue, runnerTask, containers, nextContainer,
                    startedContainers, clientVars, faultVars, walk, budget,
                    Scheduler, nodeDisk >>

\* A worker with its runner, its updater and its REST API, the manager
\* dispatching to it, and no fault of the environment.
NextWorkerRace ==
    \/ \E k \in 1..MaxTasks : ManagerStartTaskHandler(k)
    \/ \E i \in 1..Len(addTaskSenders) : AddTaskSend(i)
    \/ \E ok \in BOOLEAN : SendWork(ok)
    \/ \E w \in Workers : ManagerUpdateTasks(w)
    \/ \E w \in Workers, id \in TaskIds : WorkerStopTaskHandler(w, id)
    \/ \E w \in Workers : RunNextTask(w)
    \/ \E w \in Workers, ok \in BOOLEAN : StartTask(w, ok)
    \/ \E w \in Workers : WorkerUpdateTasks(w)
    \/ \E w \in Workers, ports \in BOOLEAN : InspectTaskCall(w, ports)
    \/ \E w \in Workers : UpdateTasksPut(w)

SpecWorkerRace ==
    InitWith(MaxRequests, 0, "roundrobin") /\ [][NextWorkerRace]_vars

\* C29: once a worker store holds a task as Completed, no later write changes
\* the state of that task.
C29_CompletedIsTerminal ==
    [][\A w \in Workers : \A id \in StoreKeys(Db[w]) :
          Db[w][id].State = "Completed" => Db'[w][id].State = "Completed"]_vars

\* ----------------------------------------------------------------- C30
\* The runner of worker w takes a Scheduled task and accepts it.
AcceptsScheduled(w) ==
    /\ Queue[w] # <<>>
    /\ runnerTask[w] = NoTask
    /\ Head(Queue[w]).State = "Scheduled"
    /\ runNextTaskAccepts(runNextTaskStored(Db[w], Head(Queue[w])),
                          Head(Queue[w]))

\* C30: when the runner accepts a Scheduled task that carries a ContainerId,
\* that container is stopped and removed before the new one is started, and
\* when the stop fails nothing is started. A failed start stores the task as
\* Failed and makes no container; a successful one stores it as Running with
\* the id of the new container and a StartTime. So the worker store never
\* holds a Running task without a ContainerId.
C30_ScheduledIsStartedAfterStop ==
    [][\A w \in Workers :
          /\ (AcceptsScheduled(w) /\ Queue'[w] = Tail(Queue[w])
                                  /\ Head(Queue[w]).ContainerId # 0) =>
                LET t == Head(Queue[w]) IN
                IF EngineHas(w, t.ContainerId)
                THEN /\ t.ContainerId \notin DOMAIN containers'[w]
                     /\ runnerTask'[w] = t
                ELSE /\ runnerTask'[w] = NoTask
                     /\ UNCHANGED << containers, nextContainer >>
          /\ (runnerTask[w] # NoTask /\ runnerTask'[w] = NoTask) =>
                LET t == runnerTask[w]
                    new == DOMAIN containers'[w] \ DOMAIN containers[w]
                IN  /\ t.ContainerId # 0 => ~EngineHas(w, t.ContainerId)
                    /\ \/ /\ Db'[w][t.Id].State = "Failed"
                          /\ new = {}
                       \/ /\ Db'[w][t.Id].State = "Running"
                          /\ new = {Db'[w][t.Id].ContainerId}
                          /\ Db'[w][t.Id].StartTime # 0
          /\ \A id \in StoreKeys(Db'[w]) :
                Db'[w][id].State = "Running" => Db'[w][id].ContainerId # 0]_vars

\* A task was restarted in place: its first container is gone and it runs in
\* a second one.
C30_Witness ==
    \E w \in Workers : \E id \in StoreKeys(Db[w]) :
        /\ Db[w][id].State = "Running"
        /\ Db[w][id].RestartCount = 1
        /\ startedContainers[id] = 2
        /\ DOMAIN containers[w] = {Db[w][id].ContainerId}

\* ----------------------------------------------------------------- C31
\* The inspection of the next listed Running task fails: Docker.Inspect
\* answers an error although the engine holds the container.
InspectTaskError(w) ==
    /\ updaterTasks[w] # <<>>
    /\ call.fn # "Worker.InspectTask"
    /\ call' = [ fn |-> "Worker.InspectTask", worker |-> w,
                 task |-> Head(updaterTasks[w]), status |-> "error",
                 ports |-> FALSE ]
    /\ ProgramUnchanged

NextUpdater ==
    \/ NextWorkerRace
    \/ \E w \in Workers : InspectTaskError(w)

SpecUpdater ==
    InitWith(MaxRequests, 0, "roundrobin") /\ [][NextUpdater]_vars

\* C31: the updater lists, inspects and writes Running tasks only, and a
\* task whose inspection failed or answered exited is stored as Failed.
C31_UpdaterMarksFailed ==
    [][\A w \in Workers :
          /\ \A i \in 1..Len(updaterTasks'[w]) :
                updaterTasks'[w][i].State = "Running"
          /\ (call.fn = "Worker.InspectTask" /\ call.worker = w
                                            /\ call' = NoCall) =>
                /\ call.task.State = "Running"
                /\ \A id \in TaskIds \ {call.task.Id} :
                      Db'[w][id] = Db[w][id]
                /\ call.status \in {"error", "exited"} =>
                      Db'[w][call.task.Id]
                         = [call.task EXCEPT !.State = "Failed"]]_vars

\* ----------------------------------------------------------------- C32
\* The health loop calls restartTask on the task at the head of its list.
RestartStep == healthTasks # <<>> /\ healthTasks' # healthTasks

C33_UpdateTasksMergesFourFields ==
    [][(call'.fn = "Manager.updateTasks" /\ call' # call) =>
          /\ UNCHANGED << WorkerTaskMap, TaskWorkerMap, TaskCount, LastWorker >>
          /\ TaskDb = call'.before /\ TaskDb' = call'.after
          /\ StoreKeys(TaskDb') = StoreKeys(TaskDb)
          /\ \A id \in StoreKeys(TaskDb) :
                IF \E t \in Range(call'.listed) : t.Id = id
                THEN /\ TaskDb'[id].Id = TaskDb[id].Id
                     /\ TaskDb'[id].RestartCount = TaskDb[id].RestartCount
                     /\ TaskDb'[id].Disk = TaskDb[id].Disk
                     /\ \E t \in Range(call'.listed) :
                           /\ t.Id = id
                           /\ TaskDb'[id].State = t.State
                           /\ TaskDb'[id].StartTime = t.StartTime
                           /\ TaskDb'[id].FinishTime = t.FinishTime
                           /\ TaskDb'[id].ContainerId = t.ContainerId
                ELSE TaskDb'[id] = TaskDb[id]]_vars

\* A run merged the state of a task whose restart the worker has not taken
\* yet: the worker reported another RestartCount than the manager stores,
\* beside the zero-valued entries of its list.
C33_Witness ==
    /\ call.fn = "Manager.updateTasks"
    /\ ZeroTask \in Range(call.listed)
    /\ \E t \in Range(call.listed) :
          /\ StoreHas(call.before, t.Id)
          /\ call.before[t.Id].RestartCount # t.RestartCount
          /\ call.after[t.Id].State # call.before[t.Id].State

\* ------------------------------------------------- the manager's goroutines
\* ProcessTasks and CheckTasksHealth run as two goroutines without a lock.
\* Each of sendWork and restartTask writes to the stores and then waits for
\* the answer of its POST; call holds, for each, what it is in the middle of.
Dispatching == IF call.fn = "Manager.loops" THEN call.dispatch ELSE NoCall

Restarting == IF call.fn = "Manager.loops" THEN call.restart ELSE NoCall

Loops(dispatch, restart) ==
    IF dispatch = NoCall /\ restart = NoCall THEN NoCall
    ELSE [fn |-> "Manager.loops", dispatch |-> dispatch, restart |-> restart]

\* sendWork up to its POST, for an event it takes as a new task and with a
\* worker selected by the round-robin scheduler (the other branches return
\* without a POST): the event and the task are stored, both maps filled.
SendWorkStore ==
    /\ Dispatching = NoCall
    /\ Pending # <<>>
    /\ LET tEvent == Head(Pending)
           w == selectWorker(tEvent.Task, LastWorker, {})
       IN  /\ ~sendWorkFound(tEvent)
           /\ w # 0
           /\ Pending' = Tail(Pending)
           /\ EventDb' = sendWorkEventDb(EventDb, tEvent)
           /\ LastWorker' = RoundRobinNext(LastWorker, NumWorkers)
           /\ WorkerTaskMap' = sendWorkWorkerTaskMap(WorkerTaskMap, w, tEvent.Task.Id)
           /\ TaskWorkerMap' = sendWorkTaskWorkerMap(TaskWorkerMap, w, tEvent.Task.Id)
           /\ TaskDb' = sendWorkTaskDb(TaskDb, tEvent)
           /\ call' = Loops([tEvent |-> tEvent, worker |-> w], Restarting)
    /\ UNCHANGED << addTaskSenders, TaskCount, healthTasks, restartsIssued,
                    workerVars, clientVars, faultVars, walk, budget, Scheduler,
                    nodeDisk >>

\* sendWork from its POST on: a transport error hands the event to AddTask
\* again, a 201 counts the task on the node.
SendWorkPost(ok) ==
    /\ Dispatching # NoCall
    /\ LET tEvent == Dispatching.tEvent
           w == Dispatching.worker
       IN  IF ok
           THEN /\ Queue' = WorkerAddTask(Queue, w, tEvent.Task)
                /\ TaskCount' = [TaskCount EXCEPT ![w] = @ + 1]
                /\ UNCHANGED << addTaskSenders, transportErrors >>
           ELSE /\ Faults < budget.faults
                /\ transportErrors' = transportErrors + 1
                /\ addTaskSenders' = sendWorkRetry(addTaskSenders, tEvent)
                /\ UNCHANGED << Queue, TaskCount >>
    /\ call' = Loops(NoCall, Restarting)
    /\ UNCHANGED << Pending, TaskDb, EventDb, WorkerTaskMap, TaskWorkerMap,
                    LastWorker, healthTasks, restartsIssued, Db, runnerTask,
                    updaterTasks, containers, nextContainer, startedContainers,
                    clientVars, runFailures, exits, walk, budget, Scheduler,
                    nodeDisk >>

\* restartTask up to its POST: the task it was given is stored as Scheduled
\* with RestartCount + 1.
RestartTaskPut ==
    /\ Restarting = NoCall
    /\ healthTasks # <<>>
    /\ LET t == restartTaskUpdate(Head(healthTasks))
       IN  /\ TaskDb' = StorePut(TaskDb, t.Id, t)
           /\ restartsIssued' = [restartsIssued EXCEPT
                                   ![t.Id] = Min(@ + 1, MaxRestarts + 1)]
           /\ call' = Loops(Dispatching, [task |-> t])
    /\ UNCHANGED << addTaskSenders, Pending, EventDb, WorkerTaskMap,
                    TaskWorkerMap, LastWorker, TaskCount, healthTasks,
                    workerVars, clientVars, faultVars, walk, budget, Scheduler,
                    nodeDisk >>

\* restartTask from its POST on, to the worker TaskWorkerMap names then.
RestartTaskPost(ok) ==
    /\ Restarting # NoCall
    /\ LET t == Restarting.task
           w == TaskWorkerMap[t.Id]
       IN  IF ok
           THEN /\ Queue' = WorkerAddTask(Queue, w, t)
                /\ UNCHANGED transportErrors
           ELSE /\ Faults < budget.faults
                /\ transportErrors' = transportErrors + 1
                /\ UNCHANGED Queue
    /\ healthTasks' = healthSkip(Tail(healthTasks))
    /\ call' = Loops(Dispatching, NoCall)
    /\ UNCHANGED << addTaskSenders, Pending, TaskDb, EventDb, WorkerTaskMap,
                    TaskWorkerMap, LastWorker, TaskCount, restartsIssued, Db,
                    runnerTask, updaterTasks, containers, nextContainer,
                    startedContainers, clientVars, runFailures, exits, walk,
                    budget, Scheduler, nodeDisk >>

NextLoops ==
    \/ \E k \in 1..MaxTasks : ManagerStartTaskHandler(k)
    \/ \E i \in 1..Len(addTaskSenders) : AddTaskSend(i)
    \/ SendWorkStore
    \/ \E ok \in BOOLEAN : SendWorkPost(ok)
    \/ CheckTasksHealth
    \/ RestartTaskPut
    \/ \E ok \in BOOLEAN : RestartTaskPost(ok)
    \/ \E w \in Workers : ManagerUpdateTasks(w)
    \/ \E w \in Workers : RunNextTask(w)
    \/ \E w \in Workers, ok \in BOOLEAN : StartTask(w, ok)
    \/ \E w \in Workers : WorkerUpdateTasks(w)
    \/ \E w \in Workers, ports \in BOOLEAN : InspectTask(w, ports)
    \/ \E w \in Workers, cid \in 1..budget.containers : ContainerExit(w, cid)

SpecLoops ==
    InitWith(MaxRequests, MaxFaults, "roundrobin") /\ [][NextLoops]_vars

\* ----------------------------------------------------------------- C34
\* C34: sendWork and restartTask are never both in progress.
C34_DispatchAndRestartSerialized ==
    ~(Dispatching # NoCall /\ Restarting # NoCall)

\* ----------------------------------------------------------------- C35
\* Manager.selectWorker of the load-aware scheduler, called for a task of the
\* client while the stats refresh of any of the candidates fails.
CallSelectWorker ==
    \E k \in 1..MaxTasks :
        LET t == ClientTask(k)
            candidates == SelectCandidateNodes(t, WorkerNodes)
        IN  /\ candidates # <<>>
            /\ \E failed \in SUBSET Range(candidates) :
                  call' = [ fn |-> "Manager.selectWorker", task |-> t,
                            candidates |-> candidates, failed |-> failed,
                            scores |-> EpvmScore(candidates, failed),
                            picked |-> selectWorker(t, LastWorker, failed) ]
            /\ ProgramUnchanged

NextSelect ==
    \/ NextEpvm
    \/ CallSelectWorker

SpecSelect == InitWith(RetryRequests, MaxFaults, "epvm") /\ [][NextSelect]_vars

\* C35: a candidate whose stats refresh failed gets no score, and is not the
\* node selectWorker returns when another candidate was scored.
C35_FailedNodeIsNotPicked ==
    call.fn = "Manager.selectWorker" =>
        /\ \A w \in call.failed : w \notin DOMAIN call.scores
        /\ DOMAIN call.scores # {} => call.picked \notin call.failed

\* ----------------------------------------------------------------- C36
\* The containers of all engines that are running.
LiveContainers ==
    UNION { { <<w, c>> : c \in { d \in DOMAIN containers[w] :
                                   containers[w][d] = "running" } } :
            w \in Workers }

\* The tasks Docker.Run has started a container for.
StartedTasks == { id \in TaskIds : startedContainers[id] > 0 }

\* C36: across all workers at most one container started for a task id is
\* live; every live container was started for one of the started tasks, so
\* there are never more live containers than started tasks.
C36_OneLiveContainerPerTask ==
    Cardinality(LiveContainers) <= Cardinality(StartedTasks)

\* ----------------------------------------------------------------- C37
\* C37: the two maps of the manager agree: a task id is in WorkerTaskMap[w]
\* exactly when TaskWorkerMap maps it to w, no task id occurs more than once
\* in WorkerTaskMap, and the keys of TaskWorkerMap are task ids.
C37_MapsAgree ==
    /\ DOMAIN TaskWorkerMap \subseteq TaskIds
    /\ \A id \in TaskIds : Occurrences(id) <= 1
    /\ \A w \in Workers : \A id \in TaskIds :
          id \in Range(WorkerTaskMap[w])
             <=> (id \in DOMAIN TaskWorkerMap /\ TaskWorkerMap[id] = w)

\* ----------------------------------------------------------------- C38
\* The restart requests for a task that worker w has received and not yet
\* processed: restartTask sends the task with RestartCount >= 1, the client
\* with RestartCount 0.
PendingRestarts(w, id) ==
    Cardinality({ i \in 1..Len(Queue[w]) :
                    Queue[w][i].Id = id /\ Queue[w][i].RestartCount >= 1 })
      + (IF runnerTask[w].Id = id /\ runnerTask[w].RestartCount >= 1
         THEN 1 ELSE 0)

\* C38: the health loop issues no second restart for a task while an earlier
\* restart of it has not been processed by the worker: no worker has two
\* unprocessed restart requests for the same task.
C38_OneRestartAtATime ==
    \A w \in Workers, id \in TaskIds : PendingRestarts(w, id) <= 1

C40_RestartWritesTwoFields ==
    [][RestartStep =>
          LET id == Head(healthTasks).Id IN
          IF StoreHas(TaskDb, id)
          THEN TaskDb'[id] = [TaskDb[id] EXCEPT
                                 !.State = TaskDb'[id].State,
                                 !.RestartCount = TaskDb'[id].RestartCount]
          ELSE FALSE]_vars

====
